---- MODULE Spec2Model ----
(***************************************************************************)
(* A model of the mustache template engine of package web (mustache.go):   *)
(* the scanner (readString), the parser (parse, parseSection,              *)
(* parsePartial, ParseString, ParseFile), the context resolver (lookup)    *)
(* and the renderer (renderSection, renderElement, Render).                *)
(*                                                                         *)
(* Text is a sequence of one-character strings.  Offsets (p) are the       *)
(* 0-based byte offsets of the Go code; data[i] of the code is data[i+1]   *)
(* here.                                                                   *)
(***************************************************************************)
EXTENDS Integers, Sequences, FiniteSets, TLC

VARIABLES
    tstack,   \* the Templates being parsed: the ParseString call and, above it, the nested ParseFile calls
    pstatus,  \* "parsing", "done" (a Template was returned), "error", "panic", "overflow"
    perr,     \* the error returned by the parse
    rstatus,  \* per Render call: "idle", "running", "done", "panic"
    rchain,   \* per Render call: the contextChain built by Render
    rstack,   \* per Render call: the active renderTemplate / renderSection loops
    rbuf      \* per Render call: the bytes written to buf

vars == <<tstack, pstatus, perr, rstatus, rchain, rstack, rbuf>>

(***************************************************************************)
(* Bounds of the model.                                                    *)
(***************************************************************************)
\* the template text is built from at most MaxPieces pieces
MaxPieces == 3
\* nested ParseFile calls the goroutine stack holds before it overflows
MaxDepth == 3
\* Render calls that run concurrently on the parsed Template
NumRenders == 2

(***************************************************************************)
(* Strings.                                                                *)
(***************************************************************************)
WhiteSpace == {" ", "\t", "\n", "\r"}

\* s[lo:hi] of Go (0-based, hi exclusive)
Sub(s, lo, hi) == SubSeq(s, lo + 1, hi)

RECURSIVE TrimLeft(_)
TrimLeft(s) ==
    IF s # <<>> /\ Head(s) \in WhiteSpace THEN TrimLeft(Tail(s)) ELSE s

RECURSIVE TrimRight(_)
TrimRight(s) ==
    IF s # <<>> /\ s[Len(s)] \in WhiteSpace
    THEN TrimRight(SubSeq(s, 1, Len(s) - 1))
    ELSE s

\* strings.TrimSpace
TrimSpace(s) == TrimRight(TrimLeft(s))

\* strings.Index(s, sep): the 0-based offset of the first sep in s, or -1
Index(s, sep) ==
    LET hits == {i \in 0..(Len(s) - Len(sep)) : Sub(s, i, i + Len(sep)) = sep}
    IN  IF hits = {} THEN -1 ELSE CHOOSE i \in hits : \A j \in hits : i <= j

\* strings.SplitN(s, sep, 2)
SplitN2(s, sep) ==
    LET i == Index(s, sep)
    IN  IF i = -1 THEN <<s>>
        ELSE <<Sub(s, 0, i), Sub(s, i + Len(sep), Len(s))>>

\* strings.Contains
Contains(s, sep) == Index(s, sep) # -1

(***************************************************************************)
(* Scanner.                                                                *)
(***************************************************************************)
\* Template.readString(s): the first offset i >= p with data[i:i+len(s)] = s.
\* On a match the text is data[p:i+len(s)], p moves past the marker, and
\* the newlines at offsets p..i are counted; with no match: io.EOF, the rest
\* of the data, and neither p nor curline moves.
readString(data, p, s) ==
    LET hits == {i \in p..(Len(data) - Len(s)) : Sub(data, i, i + Len(s)) = s}
    IN  IF hits = {}
        THEN [eof |-> TRUE, text |-> Sub(data, p, Len(data)), p |-> p,
              newlines |-> 0, at |-> -1]
        ELSE LET i == CHOOSE h \in hits : \A j \in hits : h <= j
             IN  [eof |-> FALSE, text |-> Sub(data, p, i + Len(s)),
                  p |-> i + Len(s),
                  newlines |-> Cardinality({j \in p..i : data[j + 1] = "\n"}),
                  at |-> i]

(***************************************************************************)
(* Elements and Templates.                                                 *)
(***************************************************************************)
textElement(text) == [t |-> "text", text |-> text]

varElement(name, raw) == [t |-> "var", name |-> name, raw |-> raw]

sectionElement(name, inverted, startline) ==
    [t |-> "section", name |-> name, inverted |-> inverted,
     startline |-> startline, elems |-> <<>>]

\* Template{data, "{{", "}}", 0, 1, dir, []interface{}{}}.  secs is not a
\* field of the Go struct: it is the stack of parseSection activations
\* (each holding its *sectionElement) running on this Template.
Template(data, dir) ==
    [t |-> "template", data |-> data, otag |-> <<"{", "{">>,
     ctag |-> <<"}", "}">>, p |-> 0, curline |-> 1, dir |-> dir,
     elems |-> <<>>, secs |-> <<>>]

parseError(line, message, name) ==
    [line |-> line, message |-> message, name |-> name]

NoError == parseError(0, "", <<>>)

(***************************************************************************)
(* The file system the partials are loaded from.                           *)
(***************************************************************************)
OTag == <<"{", "{">>
CTag == <<"}", "}">>
Tag(body) == OTag \o body \o CTag

ExtMustache == <<".", "m", "u", "s", "t", "a", "c", "h", "e">>
ExtStache == <<".", "s", "t", "a", "c", "h", "e">>

\* p includes itself; d/r and d/s include each other; q.mustache is a leaf
Files ==
    (<<"p">> :> Tag(<<">", "p">>))
    @@ ((<<"q">> \o ExtMustache) :> (<<"y">> \o Tag(<<"v">>)))
    @@ (<<"d", "/", "r">> :> Tag(<<">", "s">>))
    @@ (<<"d", "/", "s">> :> Tag(<<">", "r">>))

\* path.Clean for paths without "." and ".." elements: repeated slashes
\* collapse, a trailing slash goes, the empty path becomes "."
RECURSIVE Squeeze(_)
Squeeze(s) ==
    IF Len(s) < 2 THEN s
    ELSE IF s[1] = "/" /\ s[2] = "/" THEN Squeeze(Tail(s))
    ELSE <<s[1]>> \o Squeeze(Tail(s))

Clean(s) ==
    LET q == Squeeze(s)
    IN  IF q = <<>> THEN <<".">>
        ELSE IF Len(q) > 1 /\ q[Len(q)] = "/" THEN SubSeq(q, 1, Len(q) - 1)
        ELSE q

\* path.Join(dir, name): the non-empty elements joined by "/" and cleaned
Join(dir, name) ==
    IF dir = <<>> /\ name = <<>> THEN <<>>
    ELSE IF dir = <<>> THEN Clean(name)
    ELSE IF name = <<>> THEN Clean(dir)
    ELSE Clean(dir \o <<"/">> \o name)

\* the dir result of path.Split: everything up to and including the last slash
SplitDir(filename) ==
    LET slashes == {i \in 1..Len(filename) : filename[i] = "/"}
    IN  IF slashes = {} THEN <<>>
        ELSE SubSeq(filename, 1, CHOOSE i \in slashes : \A j \in slashes : j <= i)

\* the search order of parsePartial
filenames(dir, name) ==
    <<Join(dir, name), Join(dir, name \o ExtMustache), Join(dir, name \o ExtStache),
      name, name \o ExtMustache, name \o ExtStache>>

\* the first name of the search order that os.Open opens, "" when none
PartialFile(dir, name) ==
    LET fs == filenames(dir, name)
        ok == {i \in 1..Len(fs) : fs[i] \in DOMAIN Files}
    IN  IF ok = {} THEN <<>>
        ELSE fs[CHOOSE i \in ok : \A j \in ok : i <= j]

(***************************************************************************)
(* Parser.                                                                 *)
(***************************************************************************)
\* the Template whose parse loop is running
Top == tstack[Len(tstack)]

\* The head of one iteration of the loop of parse / parseSection: the text
\* up to the open tag, then the tag up to the close tag ("}" + ctag when
\* the byte after the open tag is "{").  tagAt is the offset of the open tag.
Scan(t) ==
    LET r1 == readString(t.data, t.p, t.otag)
    IN  IF r1.eof
        THEN [kind |-> "eof", text |-> r1.text, tag |-> <<>>, p |-> t.p,
              curline |-> t.curline, tagAt |-> -1]
        ELSE
          LET text == Sub(r1.text, 0, Len(r1.text) - Len(t.otag))
              line1 == t.curline + r1.newlines
              brace == r1.p < Len(t.data) /\ t.data[r1.p + 1] = "{"
              r2 == readString(t.data, r1.p,
                               IF brace THEN <<"}">> \o t.ctag ELSE t.ctag)
          IN  IF r2.eof
              THEN [kind |-> "unmatched", text |-> text, tag |-> <<>>, p |-> r1.p,
                    curline |-> line1, tagAt |-> r1.at]
              ELSE
                LET tag == TrimSpace(Sub(r2.text, 0, Len(r2.text) - Len(t.ctag)))
                IN  [kind |-> IF tag = <<>> THEN "empty" ELSE "tag",
                     text |-> text, tag |-> tag, p |-> r2.p,
                     curline |-> line1 + r2.newlines, tagAt |-> r1.at]

\* append to section.elems in parseSection, to template.elems in parse
AppendElem(t, e) ==
    IF t.secs = <<>>
    THEN [t EXCEPT !.elems = Append(@, e)]
    ELSE [t EXCEPT !.secs[Len(t.secs)].elems = Append(@, e)]

\* the Template after the scanner moved and the text element was appended
Scanned(t, sc) ==
    AppendElem([t EXCEPT !.p = sc.p, !.curline = sc.curline], textElement(sc.text))

SetTop(t) == tstack' = [tstack EXCEPT ![Len(tstack)] = t]

Fail(line, message, name) ==
    /\ pstatus' = "error"
    /\ perr' = parseError(line, message, name)

Continue == UNCHANGED <<pstatus, perr>>

rvars == <<rstatus, rchain, rstack, rbuf>>

Parsing == pstatus = "parsing"

\* the next tag starts with one of the characters cs
TagIs(cs) == Parsing /\ Scan(Top).kind = "tag" /\ Scan(Top).tag[1] \in cs

\* parse meets io.EOF in the Template ParseString built: the remaining text
\* becomes the last element and ParseString returns the Template
ParseStringReturns ==
    /\ Parsing /\ Scan(Top).kind = "eof" /\ Top.secs = <<>>
    /\ Len(tstack) = 1
    /\ SetTop([Top EXCEPT !.elems = Append(@, textElement(Scan(Top).text))])
    /\ pstatus' = "done"
    /\ UNCHANGED <<perr, rvars>>

\* parse meets io.EOF in a Template ParseFile built for parsePartial: the
\* partial goes into the including section or Template, whose loop goes on
ParseFileReturns ==
    /\ Parsing /\ Scan(Top).kind = "eof" /\ Top.secs = <<>>
    /\ Len(tstack) > 1
    /\ LET partial == [Top EXCEPT !.elems = Append(@, textElement(Scan(Top).text))]
           n == Len(tstack) - 1
       IN  tstack' = [SubSeq(tstack, 1, n) EXCEPT ![n] = AppendElem(@, partial)]
    /\ Continue
    /\ UNCHANGED rvars

\* parseSection meets io.EOF
SectionEOF ==
    /\ Parsing /\ Scan(Top).kind = "eof" /\ Top.secs # <<>>
    /\ LET section == Top.secs[Len(Top.secs)]
       IN  Fail(section.startline, "Section has no closing tag", section.name)
    /\ UNCHANGED <<tstack, rvars>>

UnmatchedOpenTag ==
    /\ Parsing /\ Scan(Top).kind = "unmatched"
    /\ SetTop(Scanned(Top, Scan(Top)))
    /\ Fail(Scan(Top).curline, "unmatched open tag", <<>>)
    /\ UNCHANGED rvars

EmptyTag ==
    /\ Parsing /\ Scan(Top).kind = "empty"
    /\ SetTop(Scanned(Top, Scan(Top)))
    /\ Fail(Scan(Top).curline, "empty tag", <<>>)
    /\ UNCHANGED rvars

CommentTag ==
    /\ TagIs({"!"})
    /\ SetTop(Scanned(Top, Scan(Top)))
    /\ Continue
    /\ UNCHANGED rvars

\* the read position after the line break that follows a section tag
SkipNewline(data, p) ==
    IF Len(data) > p /\ data[p + 1] = "\n" THEN p + 1
    ELSE IF Len(data) > p + 1 /\ data[p + 1] = "\r" /\ data[p + 2] = "\n" THEN p + 2
    ELSE p

\* case '#', '^': a sectionElement is built and parseSection runs on it
OpenSectionTag ==
    /\ TagIs({"#", "^"})
    /\ LET sc == Scan(Top)
           t == Scanned(Top, sc)
           name == TrimSpace(Tail(sc.tag))
           se == sectionElement(name, sc.tag[1] = "^", t.curline)
       IN  SetTop([t EXCEPT !.p = SkipNewline(t.data, t.p),
                            !.secs = Append(@, se)])
    /\ Continue
    /\ UNCHANGED rvars

\* a faulty variant of CloseMatches: any close tag ends the section
CloseMatchesAny(name, section) == TRUE

\* the name of a close tag is the name of the section being parsed
CloseMatches(name, section) == name = section.name

\* case '/' of parseSection: the section ends, or the tag is interleaved
CloseTagInSection ==
    /\ TagIs({"/"}) /\ Top.secs # <<>>
    /\ LET sc == Scan(Top)
           t == Scanned(Top, sc)
           name == TrimSpace(Tail(sc.tag))
           n == Len(t.secs)
       IN  IF CloseMatches(name, t.secs[n])
           THEN /\ SetTop(AppendElem([t EXCEPT !.secs = SubSeq(@, 1, n - 1)], t.secs[n]))
                /\ Continue
           ELSE /\ SetTop(t)
                /\ Fail(t.curline, "interleaved closing tag", name)
    /\ UNCHANGED rvars

\* case '/' of parse
CloseTagAtTop ==
    /\ TagIs({"/"}) /\ Top.secs = <<>>
    /\ SetTop(Scanned(Top, Scan(Top)))
    /\ Fail(Scan(Top).curline, "unmatched close tag", <<>>)
    /\ UNCHANGED rvars

\* case '>': parsePartial finds no file
PartialNotFound ==
    /\ TagIs({">"})
    /\ LET name == TrimSpace(Tail(Scan(Top).tag))
       IN  /\ PartialFile(Top.dir, name) = <<>>
           /\ Fail(0, "Could not find partial", name)
    /\ SetTop(Scanned(Top, Scan(Top)))
    /\ UNCHANGED rvars

\* case '>': parsePartial calls ParseFile, which builds a Template and parses it
PartialTag ==
    /\ TagIs({">"})
    /\ Len(tstack) < MaxDepth
    /\ LET name == TrimSpace(Tail(Scan(Top).tag))
           filename == PartialFile(Top.dir, name)
       IN  /\ filename # <<>>
           /\ tstack' = Append([tstack EXCEPT ![Len(tstack)] = Scanned(Top, Scan(Top))],
                               Template(Files[filename], SplitDir(filename)))
    /\ Continue
    /\ UNCHANGED rvars

\* case '>': one more ParseFile does not fit the goroutine stack; the Go
\* runtime ends the process (fatal error: stack overflow)
PartialOverflow ==
    /\ TagIs({">"})
    /\ Len(tstack) >= MaxDepth
    /\ PartialFile(Top.dir, TrimSpace(Tail(Scan(Top).tag))) # <<>>
    /\ pstatus' = "overflow"
    /\ UNCHANGED <<tstack, perr, rvars>>

\* case '=': the tag does not end with "="
InvalidMetaTag ==
    /\ TagIs({"="})
    /\ Scan(Top).tag[Len(Scan(Top).tag)] # "="
    /\ SetTop(Scanned(Top, Scan(Top)))
    /\ Fail(Scan(Top).curline, "Invalid meta tag", <<>>)
    /\ UNCHANGED rvars

\* case '=': the tag is "=" alone, and tag[1 : len(tag)-1] is tag[1:0]
MetaTagPanic ==
    /\ TagIs({"="})
    /\ Len(Scan(Top).tag) = 1
    /\ SetTop(Scanned(Top, Scan(Top)))
    /\ pstatus' = "panic"
    /\ UNCHANGED <<perr, rvars>>

\* a faulty variant of NewTags: the inside of the tag is split without strings.TrimSpace
NewTagsUntrimmed(t, tag) ==
    LET newtags == SplitN2(Sub(tag, 1, Len(tag) - 1), <<" ">>)
    IN  IF Len(newtags) = 2
        THEN [t EXCEPT !.otag = newtags[1], !.ctag = newtags[2]]
        ELSE t

\* the delimiters the meta tag sets: strings.SplitN(inner, " ", 2), taken
\* when it has two parts
NewTags(t, tag) ==
    LET inner == TrimSpace(Sub(tag, 1, Len(tag) - 1))
        newtags == SplitN2(inner, <<" ">>)
    IN  IF Len(newtags) = 2
        THEN [t EXCEPT !.otag = newtags[1], !.ctag = newtags[2]]
        ELSE t

\* case '=': the tag ends with "="
MetaTag ==
    /\ TagIs({"="})
    /\ Len(Scan(Top).tag) > 1
    /\ Scan(Top).tag[Len(Scan(Top).tag)] = "="
    /\ SetTop(NewTags(Scanned(Top, Scan(Top)), Scan(Top).tag))
    /\ Continue
    /\ UNCHANGED rvars

\* case '{': a raw variable when the tag ends with "}", else nothing
RawTag ==
    /\ TagIs({"{"})
    /\ LET sc == Scan(Top)
           t == Scanned(Top, sc)
       IN  IF sc.tag[Len(sc.tag)] = "}"
           THEN SetTop(AppendElem(t, varElement(Sub(sc.tag, 1, Len(sc.tag) - 1), TRUE)))
           ELSE SetTop(t)
    /\ Continue
    /\ UNCHANGED rvars

\* default: a variable
VarTag ==
    /\ Parsing /\ Scan(Top).kind = "tag"
    /\ Scan(Top).tag[1] \notin {"!", "#", "^", "/", ">", "=", "{"}
    /\ SetTop(AppendElem(Scanned(Top, Scan(Top)), varElement(Scan(Top).tag, FALSE)))
    /\ Continue
    /\ UNCHANGED rvars

ParseNext ==
    \/ ParseStringReturns
    \/ ParseFileReturns
    \/ SectionEOF
    \/ UnmatchedOpenTag
    \/ EmptyTag
    \/ CommentTag
    \/ OpenSectionTag
    \/ CloseTagInSection
    \/ CloseTagAtTop
    \/ PartialNotFound
    \/ PartialTag
    \/ PartialOverflow
    \/ InvalidMetaTag
    \/ MetaTagPanic
    \/ MetaTag
    \/ RawTag
    \/ VarTag

(***************************************************************************)
(* Values (reflect.Value).  A non-nil interface value is modelled by the   *)
(* value it holds: lookup, isEmpty and indirect all go through it.         *)
(***************************************************************************)
Invalid == [k |-> "invalid"]                    \* reflect.Value{}
VNil == [k |-> "nil"]                           \* a nil interface value
VBool(b) == [k |-> "bool", b |-> b]
VInt(n) == [k |-> "int", n |-> n]
VString(s) == [k |-> "string", s |-> s]
VSlice(es) == [k |-> "slice", es |-> es]
VArray(es) == [k |-> "array", es |-> es]
VMap(f) == [k |-> "map", f |-> f]               \* f: key -> value
VStruct(f, m) == [k |-> "struct", f |-> f, m |-> m]   \* fields, methods
VPtr(elem) == [k |-> "ptr", elem |-> elem]      \* Invalid elem: a nil pointer

IsValid(v) == v.k # "invalid"

\* the result of a method that panics when called
Panics == [k |-> "panics"]

\* the methods of v.Type() that take no argument: those of a struct, and of
\* a pointer to it
Methods(v) ==
    IF v.k = "struct" THEN v.m
    ELSE IF v.k = "ptr" /\ v.elem.k = "struct" THEN v.elem.m
    ELSE <<>>

\* the loop "for v.IsValid()" of lookup on one context: found with its
\* result, or not found (the next context is tried)
RECURSIVE lookupIn(_, _)
lookupIn(v, name) ==
    IF ~IsValid(v) THEN [found |-> FALSE, v |-> Invalid]
    ELSE IF name \in DOMAIN Methods(v)
    THEN \* a panic of the call is recovered and lookup returns the zero Value
         [found |-> TRUE,
          v |-> IF Methods(v)[name] = Panics THEN Invalid ELSE Methods(v)[name]]
    ELSE IF name = <<".">> THEN [found |-> TRUE, v |-> v]
    ELSE IF v.k = "ptr" THEN lookupIn(v.elem, name)
    ELSE IF v.k = "nil" THEN lookupIn(Invalid, name)
    ELSE IF v.k \in {"struct", "map"} /\ name \in DOMAIN v.f
    THEN [found |-> TRUE, v |-> v.f[name]]
    ELSE [found |-> FALSE, v |-> Invalid]

\* the loop over contextChain of lookup
RECURSIVE lookupChain(_, _)
lookupChain(contextChain, name) ==
    IF contextChain = <<>> THEN Invalid
    ELSE LET r == lookupIn(Head(contextChain), name)
         IN  IF r.found THEN r.v ELSE lookupChain(Tail(contextChain), name)

\* a faulty variant of RestChain: the rest of a dotted name falls back to the chain
RestChainFallsBack(v, contextChain) == <<v>> \o contextChain

\* the chain the rest of a dotted name is looked up in
RestChain(v, contextChain) == <<v>>

RECURSIVE lookup(_, _)
lookup(contextChain, name) ==
    IF name # <<".">> /\ Contains(name, <<".">>)
    THEN LET parts == SplitN2(name, <<".">>)
             v == lookup(contextChain, parts[1])
         IN  lookup(RestChain(v, contextChain), parts[2])
    ELSE lookupChain(contextChain, name)

RECURSIVE indirect(_)
indirect(v) ==
    IF v.k = "ptr" THEN indirect(v.elem)
    ELSE IF v.k = "nil" THEN Invalid
    ELSE v

isEmpty(v) ==
    IF ~IsValid(v) \/ v.k = "nil" THEN TRUE
    ELSE LET valueInd == indirect(v)
         IN  IF ~IsValid(valueInd) THEN TRUE
             ELSE IF valueInd.k = "bool" THEN ~valueInd.b
             ELSE IF valueInd.k = "slice" THEN Len(valueInd.es) = 0
             ELSE FALSE

(***************************************************************************)
(* Output: fmt.Sprint and htmlEscape.                                      *)
(***************************************************************************)
Digits == <<"0", "1", "2", "3", "4", "5", "6", "7", "8", "9">>

RECURSIVE Itoa(_)
Itoa(n) ==
    IF n < 0 THEN <<"-">> \o Itoa(-n)
    ELSE IF n < 10 THEN <<Digits[n + 1]>>
    ELSE Itoa(n \div 10) \o <<Digits[(n % 10) + 1]>>

\* the keys of the model's maps and structs in the order fmt prints them:
\* sorted for a map, and the structs declare their fields in this order
KeyOrder == <<<<"a">>, <<"b">>, <<"c">>, <<"f">>, <<"l">>, <<"v">>>>

KeysOf(f) == SelectSeq(KeyOrder, LAMBDA key : key \in DOMAIN f)

RECURSIVE Sprint(_)
RECURSIVE SprintAll(_, _)
\* the values printed with fmt's %v, separated by spaces
SprintAll(vs, i) ==
    IF i > Len(vs) THEN <<>>
    ELSE (IF i > 1 THEN <<" ">> ELSE <<>>) \o Sprint(vs[i]) \o SprintAll(vs, i + 1)

RECURSIVE SprintMap(_, _, _)
SprintMap(f, keys, i) ==
    IF i > Len(keys) THEN <<>>
    ELSE (IF i > 1 THEN <<" ">> ELSE <<>>) \o keys[i] \o <<":">> \o Sprint(f[keys[i]])
         \o SprintMap(f, keys, i + 1)

\* fmt.Sprint(val.Interface())
Sprint(v) ==
    CASE v.k = "bool" -> IF v.b THEN <<"t", "r", "u", "e">> ELSE <<"f", "a", "l", "s", "e">>
      [] v.k = "int" -> Itoa(v.n)
      [] v.k = "string" -> v.s
      [] v.k \in {"slice", "array"} -> <<"[">> \o SprintAll(v.es, 1) \o <<"]">>
      [] v.k = "map" -> <<"m", "a", "p", "[">> \o SprintMap(v.f, KeysOf(v.f), 1) \o <<"]">>
      [] v.k = "struct" ->
            <<"{">> \o SprintAll([i \in 1..Len(KeysOf(v.f)) |-> v.f[KeysOf(v.f)[i]]], 1) \o <<"}">>
      [] v.k = "ptr" /\ v.elem.k = "struct" -> <<"&">> \o Sprint(v.elem)
      [] OTHER -> <<"<", "n", "i", "l", ">">>

esc_quot == <<"&", "q", "u", "o", "t", ";">>
esc_apos == <<"&", "a", "p", "o", "s", ";">>
esc_amp == <<"&", "a", "m", "p", ";">>
esc_lt == <<"&", "l", "t", ";">>
esc_gt == <<"&", "g", "t", ";">>

RECURSIVE htmlEscape(_)
htmlEscape(s) ==
    IF s = <<>> THEN <<>>
    ELSE (CASE Head(s) = "\"" -> esc_quot
            [] Head(s) = "'" -> esc_apos
            [] Head(s) = "&" -> esc_amp
            [] Head(s) = "<" -> esc_lt
            [] Head(s) = ">" -> esc_gt
            [] OTHER -> <<Head(s)>>) \o htmlEscape(Tail(s))

(***************************************************************************)
(* Renderer.                                                               *)
(***************************************************************************)
\* the variable's output: nothing when the lookup is not valid
varOutput(elem, contextChain) ==
    LET val == lookup(contextChain, elem.name)
    IN  IF ~IsValid(val) THEN <<>>
        ELSE IF elem.raw THEN Sprint(val)
        ELSE htmlEscape(Sprint(val))

\* contextChain[len(contextChain)-1] of renderSection panics on an empty chain
sectionPanics(section, contextChain) == contextChain = <<>>

\* the contexts renderSection renders the section's elements with
sectionContexts(section, contextChain) ==
    LET value == lookup(contextChain, section.name)
        context == contextChain[Len(contextChain)]
        empty == isEmpty(value)
        valueInd == indirect(value)
    IN  IF (empty /\ ~section.inverted) \/ (~empty /\ section.inverted) THEN <<>>
        ELSE IF ~section.inverted
        THEN CASE valueInd.k \in {"slice", "array"} -> valueInd.es
               [] valueInd.k \in {"map", "struct"} -> <<value>>
               [] OTHER -> <<context>>
        ELSE <<context>>

\* chain2 of renderSection: a new slice holding ctx and then contextChain
chain2(ctx, contextChain) == <<ctx>> \o contextChain

\* Render run alone, to its end: [panic, out].  renderElems is the loop over
\* elems of renderTemplate and of renderSection, renderContexts the loop
\* over contexts of renderSection.
RECURSIVE renderElems(_, _, _)
RECURSIVE renderContexts(_, _, _, _)
RECURSIVE renderElement(_, _)

renderElems(elems, i, contextChain) ==
    IF i > Len(elems) THEN [panic |-> FALSE, out |-> <<>>]
    ELSE LET r == renderElement(elems[i], contextChain)
         IN  IF r.panic THEN r
             ELSE LET rest == renderElems(elems, i + 1, contextChain)
                  IN  [panic |-> rest.panic, out |-> r.out \o rest.out]

renderContexts(section, contexts, c, contextChain) ==
    IF c > Len(contexts) THEN [panic |-> FALSE, out |-> <<>>]
    ELSE LET r == renderElems(section.elems, 1, chain2(contexts[c], contextChain))
         IN  IF r.panic THEN r
             ELSE LET rest == renderContexts(section, contexts, c + 1, contextChain)
                  IN  [panic |-> rest.panic, out |-> r.out \o rest.out]

renderElement(elem, contextChain) ==
    CASE elem.t = "text" -> [panic |-> FALSE, out |-> elem.text]
      [] elem.t = "var" -> [panic |-> FALSE, out |-> varOutput(elem, contextChain)]
      [] elem.t = "section" ->
            IF sectionPanics(elem, contextChain) THEN [panic |-> TRUE, out |-> <<>>]
            ELSE renderContexts(elem, sectionContexts(elem, contextChain), 1, contextChain)
      [] elem.t = "template" -> renderElems(elem.elems, 1, contextChain)

\* Template.Render(context...) run alone
Render(template, contextChain) == renderElems(template.elems, 1, contextChain)

(***************************************************************************)
(* Render calls running concurrently on the parsed Template, one element   *)
(* at a time.  Each call has its stack of running loops: a frame holds the *)
(* Template or sectionElement whose elems are rendered (elem), the index   *)
(* of the next element (i), the contextChain the function was called with  *)
(* (chain) and, for a section, its contexts and the index c of the current *)
(* one.                                                                    *)
(***************************************************************************)
Calls == 1..NumRenders

TheTemplate == tstack[1]

Frame(elem, contextChain, contexts) ==
    [elem |-> elem, i |-> 1, chain |-> contextChain, contexts |-> contexts,
     c |-> IF contexts = <<>> THEN 0 ELSE 1]

\* the chain the elements of the frame are rendered with
FrameChain(f) ==
    IF f.elem.t = "section" THEN chain2(f.contexts[f.c], f.chain) ELSE f.chain

\* leave the loops that are over: the next context of a section, or return
RECURSIVE Unwind(_)
Unwind(stack) ==
    IF stack = <<>> THEN stack
    ELSE LET n == Len(stack)
             f == stack[n]
         IN  IF f.i <= Len(f.elem.elems) THEN stack
             ELSE IF f.c < Len(f.contexts)
             THEN Unwind([stack EXCEPT ![n] = [f EXCEPT !.c = f.c + 1, !.i = 1]])
             ELSE Unwind(SubSeq(stack, 1, n - 1))

Running(k) == rstatus[k] = "running"
TopFrame(k) == rstack[k][Len(rstack[k])]
NextElem(k) == TopFrame(k).elem.elems[TopFrame(k).i]

\* the stack with the current element passed
Passed(k) == [rstack[k] EXCEPT ![Len(rstack[k])].i = @ + 1]

\* a faulty variant of BufOf: one buffer shared by the calls
BufOfShared(k) == 1

\* the buffer the call k writes to: its own (var buf bytes.Buffer of Render)
BufOf(k) == k

\* the call goes on with the stack, or returns buf.String()
GoOn(k, stack) ==
    /\ rstack' = [rstack EXCEPT ![k] = Unwind(stack)]
    /\ rstatus' = [rstatus EXCEPT ![k] = IF Unwind(stack) = <<>> THEN "done" ELSE "running"]

Write(k, bytes) == rbuf' = [rbuf EXCEPT ![BufOf(k)] = @ \o bytes]

pvars == <<tstack, pstatus, perr>>

(***************************************************************************)
(* The contexts the callers pass to Render.                                *)
(***************************************************************************)
KA == <<"a">>
KB == <<"b">>
KC == <<"c">>
KF == <<"f">>
KL == <<"l">>
KV == <<"v">>

NoMethods == <<>>

CtxList == VMap((KA :> VSlice(<<VInt(1), VInt(2)>>)) @@ (KV :> VString(<<"<">>)))

CtxArray0 == VMap((KA :> VArray(<<>>)) @@ (KV :> VInt(7)))

CtxRecord ==
    VStruct((KA :> VMap(KB :> VString(<<"x">>)))
              @@ (KB :> VString(<<"z">>)) @@ (KC :> VString(<<"y">>)),
            (<<"g">> :> VString(<<"m">>)) @@ (<<"h">> :> Panics))

CtxFlag ==
    VMap((KA :> VInt(0))
           @@ (KL :> VSlice(<<VPtr(VStruct(KV :> VInt(1), NoMethods))>>))
           @@ (KV :> VInt(2)))

CtxEmpty ==
    VMap((KA :> VSlice(<<>>)) @@ (KB :> VNil) @@ (KF :> VBool(FALSE))
           @@ (KL :> VArray(<<VString(<<>>)>>)) @@ (KV :> VPtr(Invalid)))

\* the argument lists of Render
ContextLists ==
    { <<>>, <<CtxArray0>>, <<CtxFlag>>, <<CtxEmpty>>, <<CtxRecord, CtxList>> }

(***************************************************************************)
(* Render actions.                                                         *)
(***************************************************************************)
\* Template.Render(context...) is called on the Template ParseString returned
RenderCall(k) ==
    /\ pstatus = "done"
    /\ rstatus[k] = "idle"
    /\ \A j \in Calls : j < k => rstatus[j] # "idle"
    /\ \E contextChain \in ContextLists :
          /\ rchain' = [rchain EXCEPT ![k] = contextChain]
          /\ GoOn(k, <<Frame(TheTemplate, contextChain, <<>>)>>)
    /\ UNCHANGED <<rbuf, pvars>>

\* case *textElement
RenderText(k) ==
    /\ Running(k) /\ NextElem(k).t = "text"
    /\ Write(k, NextElem(k).text)
    /\ GoOn(k, Passed(k))
    /\ UNCHANGED <<rchain, pvars>>

\* case *varElement
RenderVar(k) ==
    /\ Running(k) /\ NextElem(k).t = "var"
    /\ Write(k, varOutput(NextElem(k), FrameChain(TopFrame(k))))
    /\ GoOn(k, Passed(k))
    /\ UNCHANGED <<rchain, pvars>>

\* case *sectionElement: renderSection computes the contexts and starts its loops
RenderSection(k) ==
    /\ Running(k) /\ NextElem(k).t = "section"
    /\ ~sectionPanics(NextElem(k), FrameChain(TopFrame(k)))
    /\ LET contextChain == FrameChain(TopFrame(k))
           contexts == sectionContexts(NextElem(k), contextChain)
       IN  IF contexts = <<>>
           THEN GoOn(k, Passed(k))
           ELSE GoOn(k, Append(Passed(k), Frame(NextElem(k), contextChain, contexts)))
    /\ UNCHANGED <<rbuf, rchain, pvars>>

\* case *sectionElement: renderSection panics, and nothing on the way up to
\* the caller of Render recovers
RenderSectionPanics(k) ==
    /\ Running(k) /\ NextElem(k).t = "section"
    /\ sectionPanics(NextElem(k), FrameChain(TopFrame(k)))
    /\ rstatus' = [rstatus EXCEPT ![k] = "panic"]
    /\ UNCHANGED <<rstack, rbuf, rchain, pvars>>

\* case *Template: the partial is rendered with the same chain
RenderPartial(k) ==
    /\ Running(k) /\ NextElem(k).t = "template"
    /\ GoOn(k, Append(Passed(k), Frame(NextElem(k), FrameChain(TopFrame(k)), <<>>)))
    /\ UNCHANGED <<rbuf, rchain, pvars>>

RenderNext ==
    \E k \in Calls :
        \/ RenderCall(k)
        \/ RenderText(k)
        \/ RenderVar(k)
        \/ RenderSection(k)
        \/ RenderSectionPanics(k)
        \/ RenderPartial(k)

(***************************************************************************)
(* Template texts.                                                         *)
(***************************************************************************)
Pieces ==
    { <<"x">>,
      <<"\n">>,
      Tag(<<"#", "a">>),
      Tag(<<"^", "b">>),
      Tag(<<"/", "a">>),
      Tag(<<"/", "b">>),
      Tag(<<"=", "|", " ", "|", "=">>),
      Tag(<<"=", "x", "=">>),
      Tag(<<">", "p">>) }

RECURSIVE PieceTexts(_)
PieceTexts(n) ==
    IF n = 0 THEN {<<>>}
    ELSE LET shorter == PieceTexts(n - 1)
         IN  shorter \cup {text \o piece : text \in shorter, piece \in Pieces}

\* texts that take the parser through each of its cases
CaseTexts ==
    { OTag \o <<"x">>,
      Tag(<<>>),
      Tag(<<"!", "c">>) \o Tag(<<"{", "v", "}">>) \o Tag(<<" ", "{", "v", " ">>),
      Tag(<<"=", "x">>),
      Tag(<<"=">>),
      Tag(<<">", "z">>),
      Tag(<<">", "q">>),
      Tag(<<">", "p">>),
      Tag(<<">", "d", "/", "r">>),
      Tag(<<"=", " ", "<", "%", " ", "%", ">", " ", "=">>) \o <<"<", "%", "v", "%", ">">> \o Tag(<<"v">>),
      Tag(<<"#", "a">>) \o <<"\r", "\n">> \o Tag(<<"/", "b">>),
      Tag(<<"/", "a">>),
      Tag(<<"#", "a">>) \o <<"x">> }

InitWith(texts) ==
    /\ \E text \in texts : tstack = <<Template(text, <<>>)>>
    /\ pstatus = "parsing"
    /\ perr = NoError
    /\ rstatus = [k \in Calls |-> "idle"]
    /\ rchain = [k \in Calls |-> <<>>]
    /\ rstack = [k \in Calls |-> <<>>]
    /\ rbuf = [k \in Calls |-> <<>>]

\* ParseString on a text
Init == InitWith(PieceTexts(MaxPieces) \cup CaseTexts)

Spec == Init /\ [][ParseNext]_vars

\* texts whose rendering goes through the cases of the renderer
RenderTexts ==
    { Tag(<<"#", "a">>) \o Tag(<<".">>) \o Tag(<<"/", "a">>),
      Tag(<<"^", "a">>) \o <<"e">> \o Tag(<<"/", "a">>),
      Tag(<<"#", "l">>) \o Tag(<<"#", "a">>) \o Tag(<<"v">>) \o Tag(<<"/", "a">>)
          \o Tag(<<"^", "b">>) \o Tag(<<".">>) \o Tag(<<"/", "b">>) \o Tag(<<"/", "l">>),
      Tag(<<"a", ".", "b">>) \o Tag(<<"a", ".", "c">>) \o Tag(<<"g">>) \o Tag(<<"h">>) }

Next == ParseNext \/ RenderNext

\* ParseString on a text, then concurrent Render calls on the Template
RenderInit == InitWith(RenderTexts \cup CaseTexts)

RenderSpec == RenderInit /\ [][Next]_vars

(***************************************************************************)
(* Properties.                                                             *)
(***************************************************************************)
Frames(k) == {rstack[k][i] : i \in 1..Len(rstack[k])}

\* the calls that are about to render a section
AtSection(k) ==
    /\ Running(k) /\ NextElem(k).t = "section"
    /\ FrameChain(TopFrame(k)) # <<>>

\* emptiness as the specification words it: undefined (or nil), false, or a
\* slice or array of length zero
C1_Empty(v) ==
    LET u == indirect(v)
    IN  \/ ~IsValid(u)
        \/ u.k = "bool" /\ ~u.b
        \/ u.k \in {"slice", "array"} /\ Len(u.es) = 0

C1_Collection(v) == indirect(v).k \in {"slice", "array"}

\* how many times the children are rendered
C1_Count(section, v) ==
    IF section.inverted THEN (IF C1_Empty(v) THEN 1 ELSE 0)
    ELSE IF C1_Empty(v) THEN 0
    ELSE IF C1_Collection(v) THEN Len(indirect(v).es)
    ELSE 1

\* C1: a section's value is empty exactly when it is undefined, false or a
\* slice or array of length zero; a non-inverted section renders its children
\* zero times on an empty value, once per element, in order and with the
\* element on top of the chain, on a non-empty collection, and once
\* otherwise; an inverted section renders them once on an empty value and
\* zero times otherwise.
C1_SectionCount ==
    \A k \in Calls :
        AtSection(k) =>
            LET chain == FrameChain(TopFrame(k))
                section == NextElem(k)
                v == lookup(chain, section.name)
                contexts == sectionContexts(section, chain)
            IN  /\ isEmpty(v) = C1_Empty(v)
                /\ Len(contexts) = C1_Count(section, v)
                /\ (~section.inverted /\ ~C1_Empty(v) /\ C1_Collection(v))
                      => /\ contexts = indirect(v).es
                         /\ \A c \in 1..Len(contexts) :
                               lookup(chain2(contexts[c], chain), <<".">>) = contexts[c]

\* the names the properties look up
Names ==
    { <<".">>, KA, KB, KC, KF, KL, KV, <<"g">>, <<"h">>,
      <<"a", ".", "b">>, <<"a", ".", "c">> }

\* the section of the frame renders without a new scope: it is inverted, or
\* its value is neither a collection nor a record or mapping
C2_NoNewScope(f) ==
    /\ f.elem.t = "section"
    /\ \/ f.elem.inverted
       \/ indirect(lookup(f.chain, f.elem.name)).k \notin {"slice", "array", "map", "struct"}

\* C2: inside a non-inverted section on a non-empty scalar or true, and
\* inside an inverted section on an empty value, every name (also ".")
\* resolves to what it resolves to right outside the section.
C2_ScopeUnchanged ==
    \A k \in Calls : \A f \in Frames(k) :
        C2_NoNewScope(f) =>
            \A name \in Names : lookup(FrameChain(f), name) = lookup(f.chain, name)

\* the frame defines the name: as a method, a field or a key
C3_Defines(v, name) ==
    \/ name \in DOMAIN Methods(v)
    \/ indirect(v).k \in {"struct", "map"} /\ name \in DOMAIN indirect(v).f

C3_Value(v, name) ==
    IF name \in DOMAIN Methods(v)
    THEN (IF Methods(v)[name] = Panics THEN Invalid ELSE Methods(v)[name])
    ELSE indirect(v).f[name]

\* the value of an undotted name: that of the first frame defining it
C3_First(chain, name) ==
    LET defining == {i \in 1..Len(chain) : C3_Defines(chain[i], name)}
    IN  IF defining = {} THEN Invalid
        ELSE C3_Value(chain[CHOOSE i \in defining : \A j \in defining : i <= j], name)

\* head over the whole chain, rest against that result alone
RECURSIVE C3_Resolve(_, _)
C3_Resolve(chain, name) ==
    LET dot == Index(name, <<".">>)
    IN  IF dot = -1 THEN C3_First(chain, name)
        ELSE C3_Resolve(<<C3_First(chain, Sub(name, 0, dot))>>,
                        Sub(name, dot + 1, Len(name)))

DottedNames ==
    { <<"a", ".", "b">>, <<"a", ".", "c">>, <<"a", ".", "v">>, <<"l", ".", "v">>,
      <<"b", ".", "a">>, <<"a", ".", "b", ".", "c">>, <<"v", ".", "g">> }

\* C3: for a dotted name head.rest, head is resolved over the whole chain,
\* the first frame defining it winning, and rest against that result alone:
\* when rest is absent there the name is undefined, whatever outer frames
\* define.  (Stated of each chain a call renders with, when it enters it.)
C3_DottedLookup ==
    \A k \in Calls :
        (Running(k) /\ TopFrame(k).i = 1) =>
            \A name \in DottedNames :
                lookup(FrameChain(TopFrame(k)), name)
                    = C3_Resolve(FrameChain(TopFrame(k)), name)

\* a.c is rendered as nothing although the record itself has a field c
C3_Witness ==
    \E k \in Calls :
        /\ rstatus[k] = "done"
        /\ rchain[k] = <<CtxRecord, CtxList>>
        /\ TheTemplate.data = Tag(<<"a", ".", "b">>) \o Tag(<<"a", ".", "c">>)
                                \o Tag(<<"g">>) \o Tag(<<"h">>)
        /\ rbuf[k] = <<"x", "m">>

CloseName(sc) == TrimSpace(Tail(sc.tag))

\* a close tag in front of the parser is treated as the nesting demands
C4_CloseStep ==
    TagIs({"/"}) =>
        LET name == CloseName(Scan(Top))
            n == Len(Top.secs)
        IN  IF n = 0
            THEN pstatus' = "error" /\ perr'.message = "unmatched close tag"
            ELSE IF name # Top.secs[n].name
            THEN /\ pstatus' = "error"
                 /\ perr'.message = "interleaved closing tag"
                 /\ perr'.name = name
            ELSE /\ pstatus' = "parsing"
                 /\ Len(tstack') = Len(tstack)
                 /\ LET t == tstack'[Len(tstack)]
                        into == IF n = 1 THEN t.elems ELSE t.secs[n - 1].elems
                    IN  /\ Len(t.secs) = n - 1
                        /\ \A i \in 1..(n - 1) : t.secs[i].name = Top.secs[i].name
                        /\ into[Len(into)].t = "section"
                        /\ into[Len(into)].name = name

\* C4: a Template is returned only if the section tags nest: each close tag
\* names the innermost open section, a close tag naming another section
\* fails with "interleaved closing tag: <name>", a close tag with no
\* section open fails too, and no section is open when the parse succeeds.
C4_ProperNesting ==
    [][ /\ C4_CloseStep
        /\ pstatus' = "done" => \A i \in 1..Len(tstack) : tstack[i].secs = <<>> ]_vars

\* a Template with a closed section was returned
C4_Witness ==
    /\ pstatus = "done"
    /\ \E i \in 1..Len(TheTemplate.elems) :
          /\ TheTemplate.elems[i].t = "section"
          /\ TheTemplate.elems[i].name = KA

\* C5: a name that cannot be resolved never aborts the render, whatever the
\* list of contexts, the empty one included: Render returns a string.
C5_NeverAborts == \A k \in Calls : rstatus[k] # "panic"

\* the frames of a call that stay on its stack keep their chain
C6_ChainsKept ==
    \A k \in Calls : \A i \in 1..Len(rstack[k]) :
        (i <= Len(rstack'[k]) /\ rstack'[k][i].elem = rstack[k][i].elem)
            => rstack'[k][i].chain = rstack[k][i].chain

\* C6: Render changes neither the Template nor the chain of an enclosing
\* scope, and each of the interleaved calls returns what it returns when it
\* runs alone.
C6_NoInterference ==
    [][ /\ pstatus = "done" => tstack' = tstack
        /\ C6_ChainsKept
        /\ \A k \in Calls :
              /\ rstatus'[k] = "done" =>
                    /\ ~Render(TheTemplate, rchain'[k]).panic
                    /\ rbuf'[k] = Render(TheTemplate, rchain'[k]).out
              /\ rstatus'[k] = "panic" => Render(TheTemplate, rchain'[k]).panic ]_vars

\* two calls with different contexts are both under way, each having written
C6_Witness ==
    /\ Running(1) /\ Running(2)
    /\ rchain[1] # rchain[2]
    /\ rbuf[1] # <<>> /\ rbuf[2] # <<>>
    /\ rbuf[1] # rbuf[2]

\* the newlines of data in front of the offset
NewlinesBefore(data, offset) == Cardinality({j \in 1..offset : data[j] = "\n"})

\* C7: when the input ends in an open section the error names the section
\* and carries the line of its opening tag: 1 plus the newlines in front of
\* the tag.
C7_UnclosedSectionLine ==
    [][ /\ TagIs({"#", "^"}) =>
              LET t == tstack'[Len(tstack')]
              IN  t.secs[Len(t.secs)].startline
                      = 1 + NewlinesBefore(Top.data, Scan(Top).tagAt)
        /\ (Parsing /\ Scan(Top).kind = "eof" /\ Top.secs # <<>>) =>
              /\ pstatus' = "error"
              /\ perr'.name = Top.secs[Len(Top.secs)].name
              /\ perr'.line = Top.secs[Len(Top.secs)].startline ]_vars

\* strings.Fields: the tokens between runs of white space
RECURSIVE Fields(_)
Fields(s) ==
    LET u == TrimLeft(s)
        ws == {i \in 1..Len(u) : u[i] \in WhiteSpace}
        end == IF ws = {} THEN Len(u) + 1 ELSE CHOOSE i \in ws : \A j \in ws : i <= j
    IN  IF u = <<>> THEN <<>>
        ELSE <<SubSeq(u, 1, end - 1)>> \o Fields(SubSeq(u, end, Len(u)))

\* =<newopen> <newclose>=
C8_WellFormed(tag) ==
    /\ Len(tag) >= 2
    /\ tag[1] = "=" /\ tag[Len(tag)] = "="
    /\ Len(Fields(Sub(tag, 1, Len(tag) - 1))) = 2

\* C8: a delimiter-change tag that is not =<newopen> <newclose>= fails the
\* parse; the delimiters change only on a well-formed tag.
C8_MalformedMetaFails ==
    [][ TagIs({"="}) =>
            LET t == tstack'[Len(tstack')]
            IN  IF C8_WellFormed(Scan(Top).tag)
                THEN pstatus' = "parsing"
                ELSE /\ pstatus' = "error"
                     /\ t.otag = Top.otag /\ t.ctag = Top.ctag ]_vars

\* C9 as stated: the delimiters are always two non-empty, distinct strings.
C9_DelimitersDistinct ==
    \A i \in 1..Len(tstack) :
        /\ tstack[i].otag # <<>> /\ tstack[i].ctag # <<>>
        /\ tstack[i].otag # tstack[i].ctag

\* C9, amended: during the parse and in the returned Template, after any
\* delimiter-change tags, the delimiters are two non-empty strings.
C9_DelimitersNonEmpty ==
    \A i \in 1..Len(tstack) : tstack[i].otag # <<>> /\ tstack[i].ctag # <<>>

\* a delimiter-change tag with blanks around its body has set the delimiters
C9_Witness ==
    /\ pstatus = "done"
    /\ TheTemplate.otag = <<"<", "%">> /\ TheTemplate.ctag = <<"%", ">">>

\* C10: the parse comes to an end for every text and every set of partial
\* files, those that include themselves or each other too: each iteration of
\* the parse loops moves the read position forward, and the loading of the
\* partials ends.
C10_ParseTerminates ==
    [][ /\ (pstatus' = "parsing" /\ Len(tstack') >= Len(tstack))
              => tstack'[Len(tstack)].p > Top.p
        /\ pstatus' # "overflow" ]_vars

====
